---- MODULE Spec2Model ----
(***************************************************************************)
(* Route maps report: the timer-triggered batch of                         *)
(* src/route-maps-report/__init__.py.  One run of main() discovers the     *)
(* routes of a site/day, renders one journey_map_<route>.html per route    *)
(* into the staging directory, captures every staged map as a              *)
(* screenshot_<route>.jpg, lays the captures out in one PDF, removes the   *)
(* staged files once the PDF is built and uploads the PDF.                 *)
(*                                                                         *)
(* The data store, the webdriver, the file system and the blob store are   *)
(* the environment: every call into them is an input drawn from the        *)
(* outcomes the call can have (a row, no row, an exception).               *)
(*                                                                         *)
(* Spec is one run of main() with the content of a map kept abstract;      *)
(* SpecMap is the drawing of one map by create_route_map, for every        *)
(* content of the store within the bounds.                                 *)
(***************************************************************************)
EXTENDS Integers, Sequences, FiniteSets, TLC

(***************************************************************************)
(* Bounds of the model.                                                    *)
(***************************************************************************)
\* longest list of route numbers the discovery query returns
MaxRoutes == 2
\* number of timer-triggered runs over the same staging directory
MaxRuns == 2
\* most staged files on which os.remove raises in one release phase
MaxStuck == 1
\* most rows of the node, charging and segment reads of a route
MaxNodes == 3
MaxCharging == 1
MaxSegments == 1
\* most rows of the telemetry table of a vehicle
MaxPoints == 3
\* most LineStrings of a route with many road segments
MaxLines == 40

(***************************************************************************)
(* Values.                                                                 *)
(***************************************************************************)
\* Python None
NULL == "None"
\* the reserved vehicle id of line 421
Sentinel == "X"
\* a tracked vehicle
Tracked == "V1"
VehicleIds == {NULL, Sentinel, Tracked}
Aliases == {NULL, "al"}

\* Route identifiers are strings, modelled as sequences of characters.
\* "a-" and "a_" differ only in a character that line 333 replaces;
\* "a-" sorts before "a" once ".html" is appended, "a_" after it.
RouteUniverse == {<<"a">>, <<"a", "-">>, <<"a", "_">>}

\* Code points of the characters that occur in staged file names.
\* ".html" stands for the extension and compares by its first character.
CharCode == ("-" :> 45) @@ (".html" :> 46) @@ ("_" :> 95) @@ ("a" :> 97)

\* the characters kept by re.sub(r'[^a-zA-Z0-9_]', '_', route_id)
SafeChars == {"_", "a"}

(***************************************************************************)
(* String helpers.                                                         *)
(***************************************************************************)
\* Python's str < str: lexicographic by code point, a proper prefix first
RECURSIVE StrLess(_, _)
StrLess(s, t) ==
    IF t = <<>> THEN FALSE
    ELSE IF s = <<>> THEN TRUE
    ELSE IF CharCode[Head(s)] # CharCode[Head(t)]
         THEN CharCode[Head(s)] < CharCode[Head(t)]
    ELSE StrLess(Tail(s), Tail(t))

\* the file name of a staged map, without the directory and the
\* "journey_map_" prefix every staged map shares
HtmlName(route_id) == route_id \o <<".html">>

\* the staged maps in descending order of their paths
RECURSIVE Descending(_)
Descending(keys) ==
    IF keys = {} THEN <<>>
    ELSE LET greatest == CHOOSE k \in keys :
                 \A other \in keys \ {k} : StrLess(HtmlName(other), HtmlName(k))
         IN <<greatest>> \o Descending(keys \ {greatest})

\* sorted(html_files): the staged maps in ascending order of their paths
RECURSIVE SortedFiles(_)
SortedFiles(keys) ==
    IF keys = {} THEN <<>>
    ELSE LET least == CHOOSE k \in keys :
                 \A other \in keys \ {k} : StrLess(HtmlName(k), HtmlName(other))
         IN <<least>> \o SortedFiles(keys \ {least})

\* re.search(r'journey_map_(.+?)\.html', html_file).group(1): the shortest
\* non-empty run of characters that is followed by ".html"
RECURSIVE UpToExtension(_)
UpToExtension(s) ==
    IF s = <<>> \/ Head(s) = ".html" THEN <<>>
    ELSE <<Head(s)>> \o UpToExtension(Tail(s))

ExtractRouteId(key) ==
    LET name == HtmlName(key)
    IN <<Head(name)>> \o UpToExtension(Tail(name))

\* re.sub(r'[^a-zA-Z0-9_]', '_', route_id)
RECURSIVE SafeRouteId(_)
SafeRouteId(route_id) ==
    IF route_id = <<>> THEN <<>>
    ELSE <<IF Head(route_id) \in SafeChars THEN Head(route_id) ELSE "_">>
         \o SafeRouteId(Tail(route_id))

\* routes_df['route_no'].unique(): first occurrences, in order
RECURSIVE Unique(_)
Unique(s) ==
    IF s = <<>> THEN <<>>
    ELSE LET front == Unique(SubSeq(s, 1, Len(s) - 1))
             x == s[Len(s)]
         IN IF \E i \in 1..Len(front) : front[i] = x THEN front
            ELSE Append(front, x)

Range(s) == {s[i] : i \in 1..Len(s)}

SeqsUpTo(S, n) == UNION {[1..k -> S] : k \in 0..n}
(***************************************************************************)
(* The data store as create_route_map sees it for one route: the outcome   *)
(* of every call the function can make.  A query either raises or returns  *)
(* its rows.                                                               *)
(***************************************************************************)
PlanRows == [vehicle_id : VehicleIds, route_alias : Aliases]
\* None in a timestamp column; the timestamps themselves are positive
NoTime == 0
\* pandas.NaT: what a NULL becomes in a column that pandas reads as
\* datetimes, which it does when another row of the column has a timestamp
NaT == 0 - 1
StartTimes == {NoTime, 1}
EndTimes == {NoTime, 2}
TimingRows == [route_start_time : StartTimes, route_end_time : EndTimes]
\* the rows of stg_masternaut_last_n_days inside the window, by timestamp
TrackRows == {<<>>, <<1, 2>>}

NoRows == <<>>
DefaultQuery == [raises |-> FALSE, rows |-> NoRows]
PlanQueries ==
    [raises : {TRUE}, rows : {NoRows}]
    \cup [raises : {FALSE}, rows : {NoRows} \cup {<<row>> : row \in PlanRows}]
\* the query of lines 115-119 has no LIMIT: it returns every run recorded
\* for the vehicle, the alias and the day, here up to two
TimingQueries ==
    [raises : {TRUE}, rows : {NoRows}]
    \cup [raises : {FALSE},
          rows : {NoRows} \cup {<<row>> : row \in TimingRows}
                 \cup {<<first, second>> : first, second \in TimingRows}]
TrackQueries ==
    [raises : {TRUE}, rows : {NoRows}] \cup [raises : {FALSE}, rows : TrackRows]

\* lines 32-45: the connection, or None when psycopg2.connect raises
get_connection(connects) == IF connects THEN "conn" ELSE NULL

\* lines 77-104
get_vehicle_and_route_info(q) ==
    IF q.raises THEN <<NULL, NULL>>
    ELSE IF q.rows = NoRows THEN <<NULL, NULL>>
    ELSE <<q.rows[1].vehicle_id, q.rows[1].route_alias>>

\* line 120, pd.read_sql: a column whose rows are all NULL holds None, a
\* column with a timestamp in some row is a datetime column and holds NaT
\* where the row is NULL
StartColumn(rows) ==
    [i \in 1..Len(rows) |->
        IF rows[i].route_start_time # NoTime THEN rows[i].route_start_time
        ELSE IF \E j \in 1..Len(rows) : rows[j].route_start_time # NoTime
        THEN NaT
        ELSE NoTime]
EndColumn(rows) ==
    [i \in 1..Len(rows) |->
        IF rows[i].route_end_time # NoTime THEN rows[i].route_end_time
        ELSE IF \E j \in 1..Len(rows) : rows[j].route_end_time # NoTime
        THEN NaT
        ELSE NoTime]

\* lines 106-133: df.iloc[0] of the two columns, (None, None) for no row
\* and for a query that raised
get_route_timing(q) ==
    IF q.raises THEN <<NoTime, NoTime>>
    ELSE IF q.rows = NoRows THEN <<NoTime, NoTime>>
    ELSE <<StartColumn(q.rows)[1], EndColumn(q.rows)[1]>>

\* lines 143-150: the text "NaT" stands in the query where a timestamp is
\* expected when a bound of the window is NaT; the store rejects it and
\* read_sql raises
Rejected(timing) == timing[1] = NaT \/ timing[2] = NaT

\* a DataFrame, or None in its place
NoneFrame == [is_none |-> TRUE, rows |-> NoRows]
Frame(rows) == [is_none |-> FALSE, rows |-> rows]

\* lines 135-160: the rows, or None when there are none or the query raises
get_telematics_data(q) ==
    IF q.raises THEN NoneFrame
    ELSE IF q.rows = NoRows THEN NoneFrame
    ELSE Frame(q.rows)

\* Python truth of a value that is None or a non-empty string
Truthy(v) == v # NULL
\* line 426, Python truth of what df.iloc[0] holds: None is false, a
\* timestamp is true and so is NaT
TimeTruthy(t) == t # NoTime

\* What the store does for one route.  "connects": psycopg2.connect works;
\* "plan", "timing", "track": the three lookups; "nodes", "segments",
\* "charging": TRUE when that read_postgis call returns, FALSE when it
\* raises; "saves": TRUE when rendering and m.save return.
AllRouteWorlds ==
    [connects : BOOLEAN, plan : PlanQueries, timing : TimingQueries,
     track : TrackQueries, nodes : BOOLEAN, segments : BOOLEAN,
     charging : BOOLEAN, saves : BOOLEAN]

\* A call the function cannot reach has no outcome to choose: it is fixed
\* to its default.  Telemetry of a sentinel vehicle stays free, the store
\* may hold rows that the function must not ask for.
Resolved(w) ==
    LET info == get_vehicle_and_route_info(w.plan)
    IN w.connects /\ Truthy(info[1]) /\ Truthy(info[2])
WindowKnown(w) ==
    LET timing == get_route_timing(w.timing)
    IN TimeTruthy(timing[1]) /\ TimeTruthy(timing[2])
Canonical(w) ==
    /\ ~w.connects => w.plan = DefaultQuery
    /\ ~Resolved(w) =>
          /\ w.timing = DefaultQuery /\ w.track = DefaultQuery
          /\ w.nodes /\ w.segments /\ w.charging /\ w.saves
    /\ ~WindowKnown(w) => w.track = DefaultQuery
    /\ (WindowKnown(w) /\ Rejected(get_route_timing(w.timing))) =>
          w.track = [raises |-> TRUE, rows |-> NoRows]
    /\ ~w.nodes => w.segments
    /\ ~(w.nodes /\ w.segments) => w.charging
    /\ ~(w.nodes /\ w.segments /\ w.charging) => w.saves
RouteWorlds == {w \in AllRouteWorlds : Canonical(w)}

(***************************************************************************)
(* create_route_map, lines 402-683.                                        *)
(***************************************************************************)
PlannedLayers == {"nodes", "segments", "charging", "depot"}
ActualLayers == {"actual_line", "actual_start", "actual_end"}

\* the telemetry lookups made whatever the vehicle id is
TelemetryAlways(vehicle_id, w) ==
    LET timing == get_route_timing(w.timing)
    IN IF TimeTruthy(timing[1]) /\ TimeTruthy(timing[2])
       THEN LET temp_df == get_telematics_data(w.track)
            IN [calls |-> <<"timing", "track">>,
                telematics_df |->
                    IF ~temp_df.is_none THEN temp_df.rows ELSE NoRows]
       ELSE [calls |-> <<"timing">>, telematics_df |-> NoRows]

\* lines 417-430: the telemetry frame the map is drawn from, with the
\* lookups made to get it
Telemetry(vehicle_id, w) ==
    IF vehicle_id # Sentinel
    THEN LET timing == get_route_timing(w.timing)
         IN IF TimeTruthy(timing[1]) /\ TimeTruthy(timing[2])
            THEN LET temp_df == get_telematics_data(w.track)
                 IN [calls |-> <<"timing", "track">>,
                     telematics_df |->
                         IF ~temp_df.is_none THEN temp_df.rows ELSE NoRows]
            ELSE [calls |-> <<"timing">>, telematics_df |-> NoRows]
    ELSE [calls |-> <<>>, telematics_df |-> NoRows]

\* lines 432-470: the three planned reads, in order, up to the first that
\* raises
PlannedCalls(w) ==
    IF ~w.nodes THEN <<"nodes">>
    ELSE IF ~w.segments THEN <<"nodes", "segments">>
    ELSE <<"nodes", "segments", "charging">>
\* a raising telemetry lookup ends the call as a raising planned read does
RaisesWithTelemetry(w) ==
    \/ ~(w.nodes /\ w.segments /\ w.charging)
    \/ w.timing.raises
    \/ w.track.raises
PlannedRaises(w) == ~(w.nodes /\ w.segments /\ w.charging)

\* lines 472-667: the layers drawn on the map
MapLayers(telematics_df) ==
    PlannedLayers \cup (IF telematics_df # NoRows THEN ActualLayers ELSE {})

NoMap == [layers |-> {}]

\* lookups whose exception is caught inside the lookup (lines 102, 131, 158)
CaughtIn(calls, w) ==
    {c \in Range(calls) :
        \/ c = "plan" /\ w.plan.raises
        \/ c = "timing" /\ w.timing.raises
        \/ c = "track" /\ w.track.raises}

\* the step whose exception reaches the handler of line 678, if any
RaisedIn(w) ==
    IF ~w.nodes THEN "nodes"
    ELSE IF ~w.segments THEN "segments"
    ELSE IF ~w.charging THEN "charging"
    ELSE IF ~w.saves THEN "save"
    ELSE NULL

\* a route without a plan record is rendered like any other
NeverMissing(vehicle_id, route_alias) == FALSE

\* line 413: the route has no usable plan record
MissingVehicleInfo(vehicle_id, route_alias) ==
    ~Truthy(vehicle_id) \/ ~Truthy(route_alias)

\* The whole call.  "status": how it ended; "calls": the lookups it made,
\* in order; "caught": the lookups that raised inside their own handler;
\* "raised": the step whose exception ended the call; "map": the saved
\* visualization (NoMap when none was saved); "closed": whether the
\* connection it opened was closed (line 683).
RouteMapResult(w) ==
    IF get_connection(w.connects) = NULL
    THEN [status |-> "noconn", calls |-> <<>>, caught |-> {}, raised |-> NULL,
          map |-> NoMap, closed |-> TRUE, vehicle_id |-> NULL,
          route_alias |-> NULL]
    ELSE LET info == get_vehicle_and_route_info(w.plan)
             vehicle_id == info[1]
             route_alias == info[2]
         IN IF MissingVehicleInfo(vehicle_id, route_alias)
            THEN [status |-> "skipped", calls |-> <<"plan">>,
                  caught |-> CaughtIn(<<"plan">>, w), raised |-> NULL,
                  map |-> NoMap, closed |-> TRUE, vehicle_id |-> vehicle_id,
                  route_alias |-> route_alias]
            ELSE LET tel == Telemetry(vehicle_id, w)
                     calls == <<"plan">> \o tel.calls \o PlannedCalls(w)
                 IN IF PlannedRaises(w) \/ ~w.saves
                    THEN [status |-> "failed", calls |-> calls,
                          caught |-> CaughtIn(calls, w),
                          raised |-> RaisedIn(w), map |-> NoMap,
                          closed |-> TRUE, vehicle_id |-> vehicle_id,
                          route_alias |-> route_alias]
                    ELSE [status |-> "rendered", calls |-> calls,
                          caught |-> CaughtIn(calls, w), raised |-> NULL,
                          map |-> [layers |-> MapLayers(tel.telematics_df)],
                          closed |-> TRUE, vehicle_id |-> vehicle_id,
                          route_alias |-> route_alias]

(***************************************************************************)
(* The data of one route and the map drawn from it, lines 417-667.         *)
(* Coordinates are in millionths of a degree.                              *)
(***************************************************************************)
\* line 552-553: the depot
DepotLat == 51463121
DepotLon == 246687
\* line 477: the centre of a map without nodes
FallbackLat == 51500000
FallbackLon == 0 - 100000
\* lines 475 and 477: zoom_start
ZoomStart == 12
\* line 518: an arrow on every 20th LineString
ArrowEvery == 20

\* places north-west of, south-east of and near the depot, and one north of
\* all of them that only road segments pass
NorthWest == [lat |-> 52000000, lon |-> 0 - 1000000]
SouthEast == [lat |-> 51000000, lon |-> 1000000]
Near == [lat |-> 51400000, lon |-> 200000]
FarNorth == [lat |-> 53000000, lon |-> 100000]

\* sequences of at most n elements of S, none of them twice
DistinctSeqsUpTo(S, n) ==
    {s \in SeqsUpTo(S, n) : \A i, j \in 1..Len(s) : i # j => s[i] # s[j]}

\* A row of t_journey_nodes as the query of lines 434-439 returns it;
\* "nulls" are its columns that hold NULL.  The rows come in the order the
\* store returns them, the query has no ORDER BY.
NodeRow(node_sequence, place, nulls) ==
    [node_sequence |-> node_sequence, lat |-> place.lat, lon |-> place.lon,
     nulls |-> nulls]
NodeRows ==
    {NodeRow(1, NorthWest, {}), NodeRow(2, SouthEast, {}),
     NodeRow(3, Near, {}), NodeRow(4, Near, {"lat", "lon", "geom"})}
NodeFrames == DistinctSeqsUpTo(NodeRows, MaxNodes)

\* A row of the charging query of lines 462-468
ChargingRow(place, nulls) ==
    [lat |-> place.lat, lon |-> place.lon, nulls |-> nulls]
ChargingRows == {ChargingRow(SouthEast, {}), ChargingRow(Near, {"geom"})}
ChargingFrames == DistinctSeqsUpTo(ChargingRows, MaxCharging)

\* A row of the segment query of lines 444-457: its geometry, with the
\* coordinates as (x, y) = (lon, lat)
LineString(places) ==
    [type |-> "LineString",
     coords |-> [i \in 1..Len(places) |-> <<places[i].lon, places[i].lat>>]]
MultiLineString(places) ==
    [type |-> "MultiLineString",
     coords |-> [i \in 1..Len(places) |-> <<places[i].lon, places[i].lat>>]]
SegmentRow(geom, nulls) == [geom |-> geom, nulls |-> nulls]
SegmentRows ==
    {SegmentRow(LineString(<<Near, FarNorth>>), {}),
     SegmentRow(MultiLineString(<<FarNorth, NorthWest>>), {})}
SegmentFrames == DistinctSeqsUpTo(SegmentRows, MaxSegments)
\* The rows of a route with many road segments: n LineStrings, alone or
\* with one row that is not drawn (another geometry, or a NULL geometry)
\* after the first j of them
LineRow == SegmentRow(LineString(<<Near, FarNorth>>), {})
UndrawnRows ==
    {SegmentRow(MultiLineString(<<FarNorth, NorthWest>>), {}),
     SegmentRow(LineString(<<Near, NorthWest>>), {"geom"})}
LinesWith(n, j, row) ==
    [i \in 1..(n + 1) |-> IF i = j + 1 THEN row ELSE LineRow]
LongSegmentFrames ==
    {[i \in 1..n |-> LineRow] : n \in 0..MaxLines}
    \cup UNION {{LinesWith(n, j, row) : j \in 0..n, row \in UndrawnRows} :
                   n \in 0..MaxLines}

\* lines 441, 459, 470: dropna
Complete(row) == row.nulls = {}
dropna(rows) == SelectSeq(rows, Complete)

\* A row of stg_masternaut_last_n_days for the vehicle
TelematicsRow(date, place) ==
    [date |-> date, latitude |-> place.lat, longitude |-> place.lon]
\* the rows the table may hold, one per timestamp
TelematicsRows ==
    {TelematicsRow(1, Near), TelematicsRow(2, SouthEast),
     TelematicsRow(3, NorthWest), TelematicsRow(4, Near)}
TelematicsTables ==
    {t \in SUBSET TelematicsRows : Cardinality(t) <= MaxPoints}
\* the window lookups of the routes drawn here: none recorded, one with
\* both timestamps, one without end, two runs the first of them without
\* end, a lookup that raises
WindowQueries ==
    {[raises |-> FALSE, rows |-> NoRows],
     [raises |-> FALSE,
      rows |-> <<[route_start_time |-> 2, route_end_time |-> 3]>>],
     [raises |-> FALSE,
      rows |-> <<[route_start_time |-> 2, route_end_time |-> NoTime]>>],
     [raises |-> FALSE,
      rows |-> <<[route_start_time |-> 2, route_end_time |-> NoTime],
                 [route_start_time |-> 2, route_end_time |-> 3]>>],
     [raises |-> TRUE, rows |-> NoRows]}

\* the query without its ORDER BY: the rows as the table holds them, here
\* latest first
RECURSIVE SelectUnordered(_, _, _)
SelectUnordered(table, start_time, end_time) ==
    LET rows == {r \in table : start_time <= r.date /\ r.date <= end_time}
    IN IF rows = {} THEN <<>>
       ELSE LET latest == CHOOSE r \in rows : \A o \in rows : o.date <= r.date
            IN <<latest>> \o SelectUnordered(rows \ {latest}, start_time,
                                             end_time)

\* lines 143-149: the rows with "date BETWEEN start AND end ORDER BY date"
RECURSIVE SelectTelematics(_, _, _)
SelectTelematics(table, start_time, end_time) ==
    LET rows == {r \in table : start_time <= r.date /\ r.date <= end_time}
    IN IF rows = {} THEN <<>>
       ELSE LET first == CHOOSE r \in rows : \A o \in rows : r.date <= o.date
            IN <<first>> \o SelectTelematics(rows \ {first}, start_time,
                                             end_time)

\* folium.Marker and folium.PolyLine as the map holds them
Marker(kind, location, label) ==
    [kind |-> kind, location |-> location, label |-> label]
PolyLine(color, locations) == [color |-> color, locations |-> locations]

\* line 495: round() of a sequence number, which is a whole number
Round(node_sequence) == node_sequence

\* the markers numbered by their position in the frame
NumberedByPosition(gdf_nodes) ==
    [i \in 1..Len(gdf_nodes) |->
        Marker("node", <<gdf_nodes[i].lat, gdf_nodes[i].lon>>, ToString(i))]

\* lines 480-500: one numbered marker per node
NodeMarkers(gdf_nodes) ==
    [i \in 1..Len(gdf_nodes) |->
        Marker("node", <<gdf_nodes[i].lat, gdf_nodes[i].lon>>,
               ToString(Round(gdf_nodes[i].node_sequence)))]

\* lines 505-506: the coordinates of a LineString as (lat, lon)
LinePoints(geom) ==
    [i \in 1..Len(geom.coords) |-> <<geom.coords[i][2], geom.coords[i][1]>>]
IsLineString(row) == row.geom.type = "LineString"
\* lines 503-514: one blue line per LineString
SegmentLines(gdf_segments) ==
    LET lines == SelectSeq(gdf_segments, IsLineString)
    IN [i \in 1..Len(lines) |-> PolyLine("blue", LinePoints(lines[i].geom))]
\* segment_counter advanced by every row of the frame
ArrowsCountingEveryRow(gdf_segments) ==
    LET lines == SelectSeq(gdf_segments, IsLineString)
        RowOf(k) ==
            CHOOSE p \in 1..Len(gdf_segments) :
                /\ IsLineString(gdf_segments[p])
                /\ Len(SelectSeq(SubSeq(gdf_segments, 1, p), IsLineString)) = k
    IN {i \in 1..Len(lines) : RowOf(i) % ArrowEvery = 0}

\* lines 517-525: the lines that get an arrow, by segment_counter
SegmentArrows(gdf_segments) ==
    LET lines == SelectSeq(gdf_segments, IsLineString)
    IN {i \in 1..Len(lines) : i % ArrowEvery = 0}

\* lines 528-548: one "C" marker per charging station
ChargingMarkers(gdf_charging) ==
    [i \in 1..Len(gdf_charging) |->
        Marker("charging", <<gdf_charging[i].lat, gdf_charging[i].lon>>, "C")]

\* lines 551-575: the depot marker
DepotMarker == Marker("depot", <<DepotLat, DepotLon>>, "D")

\* line 582
ActualRoutePoints(telematics_df) ==
    [i \in 1..Len(telematics_df) |->
        <<telematics_df[i].latitude, telematics_df[i].longitude>>]

\* the end marker left out
StartMarkerOnly(telematics_df) ==
    IF telematics_df # NoRows
    THEN LET actual_route_points == ActualRoutePoints(telematics_df)
         IN <<Marker("actual_start", actual_route_points[1], "S")>>
    ELSE <<>>

\* lines 580 and 593-636: the start and end markers of the actual route
ActualMarkers(telematics_df) ==
    IF telematics_df # NoRows
    THEN LET actual_route_points == ActualRoutePoints(telematics_df)
         IN <<Marker("actual_start", actual_route_points[1], "S"),
              Marker("actual_end",
                     actual_route_points[Len(actual_route_points)], "E")>>
    ELSE <<>>

\* lines 580-591: the red line of the actual route
ActualLines(telematics_df) ==
    IF telematics_df # NoRows
    THEN <<PolyLine("red", ActualRoutePoints(telematics_df))>>
    ELSE <<>>

\* the points without the depot
PointsWithoutDepot(gdf_nodes, gdf_charging, telematics_df) ==
    [i \in 1..Len(gdf_nodes) |-> <<gdf_nodes[i].lon, gdf_nodes[i].lat>>]
    \o [i \in 1..Len(gdf_charging) |->
           <<gdf_charging[i].lon, gdf_charging[i].lat>>]
    \o [i \in 1..Len(telematics_df) |->
           <<telematics_df[i].longitude, telematics_df[i].latitude>>]

\* lines 639-655: all_points, as (lon, lat)
AllPoints(gdf_nodes, gdf_charging, telematics_df) ==
    [i \in 1..Len(gdf_nodes) |-> <<gdf_nodes[i].lon, gdf_nodes[i].lat>>]
    \o [i \in 1..Len(gdf_charging) |->
           <<gdf_charging[i].lon, gdf_charging[i].lat>>]
    \o <<<<DepotLon, DepotLat>>>>
    \o [i \in 1..Len(telematics_df) |->
           <<telematics_df[i].longitude, telematics_df[i].latitude>>]

Max(S) == CHOOSE x \in S : \A y \in S : y <= x
Min(S) == CHOOSE x \in S : \A y \in S : x <= y

\* no fit_bounds call was made
NoBounds == <<>>

\* the corners given as (lon, lat)
BoundsAsLonLat(all_points) ==
    IF all_points # <<>>
    THEN LET north == Max({all_points[i][2] : i \in 1..Len(all_points)})
             south == Min({all_points[i][2] : i \in 1..Len(all_points)})
             east == Max({all_points[i][1] : i \in 1..Len(all_points)})
             west == Min({all_points[i][1] : i \in 1..Len(all_points)})
         IN <<<<west, south>>, <<east, north>>>>
    ELSE NoBounds

\* lines 658-665: the argument of m.fit_bounds
FitBounds(all_points) ==
    IF all_points # <<>>
    THEN LET north == Max({all_points[i][2] : i \in 1..Len(all_points)})
             south == Min({all_points[i][2] : i \in 1..Len(all_points)})
             east == Max({all_points[i][1] : i \in 1..Len(all_points)})
             west == Min({all_points[i][1] : i \in 1..Len(all_points)})
         IN <<<<south, west>>, <<north, east>>>>
    ELSE NoBounds

\* a map without nodes centred on the depot
DepotWithoutNodes(gdf_nodes) ==
    IF gdf_nodes # <<>>
    THEN LET first_node == gdf_nodes[1]
         IN <<first_node.lat, first_node.lon>>
    ELSE <<DepotLat, DepotLon>>

\* lines 472-477: the map as folium.Map makes it
Location(gdf_nodes) ==
    IF gdf_nodes # <<>>
    THEN LET first_node == gdf_nodes[1]
         IN <<first_node.lat, first_node.lon>>
    ELSE <<FallbackLat, FallbackLon>>

\* lines 472-667: the map before it is saved
FoliumMap(gdf_nodes, gdf_segments, gdf_charging, telematics_df) ==
    [location |-> Location(gdf_nodes),
     zoom_start |-> ZoomStart,
     markers |-> NodeMarkers(gdf_nodes) \o ChargingMarkers(gdf_charging)
                 \o <<DepotMarker>> \o ActualMarkers(telematics_df),
     lines |-> SegmentLines(gdf_segments) \o ActualLines(telematics_df),
     arrows |-> SegmentArrows(gdf_segments),
     bounds |-> FitBounds(AllPoints(gdf_nodes, gdf_charging, telematics_df))]

\* What the store holds for one route that has a plan record: the vehicle
\* of the plan, the window lookup, the telemetry table of the vehicle, the
\* rows of the three planned reads
Stores ==
    [vehicle_id : {Sentinel, Tracked}, timing : WindowQueries,
     table : TelematicsTables, nodes : NodeFrames, segments : SegmentFrames,
     charging : ChargingFrames]
NoStore ==
    [vehicle_id |-> NULL, timing |-> DefaultQuery, table |-> {},
     nodes |-> <<>>, segments |-> <<>>, charging |-> <<>>]

\* lines 135-160: the track lookup for the window of the route
TrackQuery(s) ==
    LET timing == get_route_timing(s.timing)
    IN IF Rejected(timing) THEN [raises |-> TRUE, rows |-> NoRows]
       ELSE [raises |-> FALSE,
             rows |-> SelectTelematics(s.table, timing[1], timing[2])]

\* the route has not been drawn
NotDrawn == [drawn |-> FALSE]

\* lines 417-667: the locals of create_route_map when the map is complete
RouteRecord(s) ==
    LET w == [timing |-> s.timing, track |-> TrackQuery(s)]
        tel == Telemetry(s.vehicle_id, w)
        timing == IF "timing" \in Range(tel.calls)
                  THEN get_route_timing(s.timing)
                  ELSE <<NoTime, NoTime>>
        gdf_nodes == dropna(s.nodes)
        gdf_segments == dropna(s.segments)
        gdf_charging == dropna(s.charging)
    IN [drawn |-> TRUE,
        vehicle_id |-> s.vehicle_id,
        calls |-> tel.calls,
        route_start_time |-> timing[1],
        route_end_time |-> timing[2],
        telematics_df |-> tel.telematics_df,
        gdf_nodes |-> gdf_nodes,
        gdf_segments |-> gdf_segments,
        gdf_charging |-> gdf_charging,
        m |-> FoliumMap(gdf_nodes, gdf_segments, gdf_charging,
                        tel.telematics_df)]

(***************************************************************************)
(* fetch_route_numbers, lines 47-75.                                       *)
(***************************************************************************)
\* What the store does for the discovery query: "connects", "raises" as
\* above, "rows" the route numbers of the site's plan for the day.
DiscoveryWorldsOver(lists) ==
    {w \in [connects : BOOLEAN, raises : BOOLEAN, rows : lists] :
        /\ ~w.connects => ~w.raises
        /\ (~w.connects \/ w.raises) => w.rows = <<>>}
DiscoveryWorlds == DiscoveryWorldsOver(SeqsUpTo(RouteUniverse, MaxRoutes))

fetch_route_numbers(w) ==
    IF get_connection(w.connects) = NULL THEN <<>>
    ELSE IF w.raises THEN <<>>
    ELSE w.rows

\* the connection closed after the rows were read, not when the query raised
ClosedOnSuccessOnly(w) ==
    IF get_connection(w.connects) = NULL THEN "failed"
    ELSE IF w.raises THEN "open"
    ELSE "closed"

\* lines 54-57 and 74-75: the connection of fetch_route_numbers when it
\* returns; the finally clause closes it after the rows and after a raise
FetchConnection(w) ==
    IF get_connection(w.connects) = NULL THEN "failed" ELSE "closed"

\* what a connection in this state adds to the open connections
Open(connection) == IF connection = "open" THEN 1 ELSE 0

(***************************************************************************)
(* The elements of the PDF, lines 241-278 and 347-365.                     *)
(***************************************************************************)
Element(kind, route_id, route_alias) ==
    [kind |-> kind, route_id |-> route_id, route_alias |-> route_alias]
Fixed(kind) == Element(kind, <<>>, NULL)
\* title, legend heading and table, then a page break
LegendElements ==
    <<Fixed("Title"), Fixed("Spacer"), Fixed("LegendHeading"), Fixed("Spacer"),
      Fixed("LegendTable"), Fixed("PageBreak"), Fixed("Spacer")>>

(***************************************************************************)
(* State.                                                                  *)
(***************************************************************************)
VARIABLES
    pc,             \* where main() stands
    runs,           \* timer-triggered runs started so far
    route_numbers,  \* what fetch_route_numbers returned
    todo,           \* routes of the loop of line 762 still to come
    last,           \* the create_route_map call that returned last
    rendered,       \* routes whose map this run saved
    html,           \* staged journey_map_*.html: file key -> content
    shots,          \* staged screenshot_*.jpg: file key -> content
    driver,         \* the webdriver: "none", "running", "quit"
    conn,           \* create_pdf_report's connection
    html_files,     \* sorted(html_files) of line 294
    idx,            \* position of the loop of line 294
    elements,       \* the elements list
    lastcap,        \* the iteration of the capture loop that ended last
    captured,       \* staged maps whose screenshot went into the elements
    pdf,            \* the PDF of this run's day: its elements, or NoPdf
    result,         \* what create_pdf_report returned
    tried,          \* staged files the release phase called os.remove on
    stuck,          \* staged files on which os.remove raised
    uploads,        \* calls of upload_to_blob_storage made by this run
    open,           \* connections this run opened and has not closed
    ending,         \* how the run ended
    store,          \* the data of the route whose map is drawn
    route           \* the locals of create_route_map for that route

vars == <<pc, runs, route_numbers, todo, last, rendered, html, shots, driver,
          conn, html_files, idx, elements, lastcap, captured, pdf, result,
          tried, stuck, uploads, open, ending, store, route>>

NoPdf == <<>>
\* no create_route_map call has returned in this run
NoCall ==
    [route_id |-> <<>>, status |-> "none", calls |-> <<>>, caught |-> {},
     raised |-> NULL, vehicle_id |-> NULL, route_alias |-> NULL,
     closed |-> TRUE]
\* no iteration of the capture loop has ended in this run
NoCapture == [key |-> <<>>, outcome |-> "none"]

\* the per-run part of the state, at the start of main()
RunStart ==
    /\ pc = "main"
    /\ route_numbers = <<>>
    /\ todo = <<>>
    /\ last = NoCall
    /\ rendered = {}
    /\ driver = "none"
    /\ conn = "none"
    /\ html_files = <<>>
    /\ idx = 0
    /\ elements = <<>>
    /\ lastcap = NoCapture
    /\ captured = <<>>
    /\ result = "pending"
    /\ tried = {}
    /\ stuck = {}
    /\ uploads = 0
    /\ open = 0
    /\ ending = "running"
    /\ pdf = NoPdf

\* the first run finds an empty staging directory
Init ==
    /\ RunStart
    /\ runs = 1
    /\ html = <<>>
    /\ shots = <<>>
    /\ store = NoStore
    /\ route = NotDrawn

\* f with key k bound to v
Put(f, k, v) == [x \in (DOMAIN f) \cup {k} |-> IF x = k THEN v ELSE f[x]]
\* f without the keys in ks
Drop(f, ks) == [x \in (DOMAIN f) \ ks |-> f[x]]

(***************************************************************************)
(* main, lines 752-759: discovery.                                         *)
(***************************************************************************)
\* an empty list goes on to the report
NoEmptyCheck(numbers) == IF numbers = <<>> THEN "report" ELSE "routes"

\* lines 756-758 and 762: an empty list ends the run, otherwise the loop
\* over the routes starts
AfterDiscovery(numbers) == IF numbers = <<>> THEN "done" ELSE "routes"

DiscoverIn(worlds) ==
    /\ pc = "main"
    /\ \E w \in worlds :
         LET numbers == fetch_route_numbers(w)
         IN /\ route_numbers' = numbers
            /\ todo' = Unique(numbers)
            /\ pc' = AfterDiscovery(numbers)
            /\ ending' = IF AfterDiscovery(numbers) = "done" THEN "no_routes"
                          ELSE ending
            /\ open' = open + Open(FetchConnection(w))
    /\ UNCHANGED <<runs, last, rendered, html, shots, driver, conn, html_files,
                   idx, elements, lastcap, captured, pdf, result, tried, stuck,
                   uploads, store, route>>

Discover == DiscoverIn(DiscoveryWorlds)

(***************************************************************************)
(* main, lines 762-764: one iteration of the route loop.                   *)
(***************************************************************************)
\* a call that failed ends the run
StopOnFailure(status, rest) ==
    IF status = "failed" THEN "done"
    ELSE IF rest = <<>> THEN "report" ELSE "routes"

\* lines 762-770: whatever the call returned, the loop goes on; after the
\* last route the report is made
AfterRoute(status, rest) == IF rest = <<>> THEN "report" ELSE "routes"

CreateRouteMap ==
    /\ pc = "routes"
    /\ todo # <<>>
    /\ \E w \in RouteWorlds :
         LET route_id == Head(todo)
             res == RouteMapResult(w)
         IN /\ last' = [route_id |-> route_id, status |-> res.status,
                        calls |-> res.calls, caught |-> res.caught,
                        raised |-> res.raised, vehicle_id |-> res.vehicle_id,
                        route_alias |-> res.route_alias,
                        closed |-> res.closed]
            /\ IF res.status = "rendered"
               THEN /\ html' = Put(html, route_id, res.map)
                    /\ rendered' = rendered \cup {route_id}
               ELSE UNCHANGED <<html, rendered>>
            /\ pc' = AfterRoute(res.status, Tail(todo))
            /\ open' = open + Open(IF res.status = "noconn" THEN "failed"
                                    ELSE IF res.closed THEN "closed"
                                    ELSE "open")
    /\ todo' = Tail(todo)
    /\ UNCHANGED <<runs, route_numbers, shots, driver, conn, html_files, idx,
                   elements, lastcap, captured, pdf, result, tried, stuck,
                   ending,
                   uploads, store, route>>
(***************************************************************************)
(* main, lines 770-771: where main() goes when create_pdf_report returns.  *)
(***************************************************************************)
\* the upload follows whatever create_pdf_report returned
UploadAlways(pdf_path) == "upload"

\* line 771: the upload follows a returned path only
AfterReport(pdf_path) == IF Truthy(pdf_path) THEN "upload" ELSE "done"

(***************************************************************************)
(* create_pdf_report, lines 162-291: libraries, webdriver, legend,         *)
(* connection, the staged maps.                                            *)
(***************************************************************************)
ReportWorlds ==
    {w \in [imports : BOOLEAN, starts : BOOLEAN, connects : BOOLEAN] :
        /\ ~w.imports => w.starts
        /\ ~(w.imports /\ w.starts) => w.connects}

\* the return of line 291 taken with the webdriver still running
LeftRunning(files) == "running"

\* lines 286-294: the webdriver after the glob; without staged maps it is
\* quit before the return, with staged maps it serves the capture loop
DriverAfterGlob(files) == IF files = {} THEN "quit" ELSE "running"

StartReport ==
    /\ pc = "report"
    /\ \E w \in ReportWorlds :
         IF ~w.imports \/ ~w.starts
         THEN /\ result' = NULL
              /\ ending' = IF ~w.imports THEN "no_libraries" ELSE "no_driver"
              /\ pc' = AfterReport(NULL)
              /\ UNCHANGED <<driver, conn, html_files, idx, elements>>
         ELSE /\ elements' = LegendElements
              /\ IF DOMAIN html = {}
                 THEN /\ driver' = DriverAfterGlob(DOMAIN html)
                      /\ conn' = IF w.connects THEN "closed" ELSE "failed"
                      /\ result' = NULL
                      /\ ending' = "no_maps"
                      /\ pc' = AfterReport(NULL)
                      /\ UNCHANGED <<html_files, idx>>
                 ELSE /\ driver' = DriverAfterGlob(DOMAIN html)
                      /\ conn' = IF w.connects THEN "open" ELSE "failed"
                      /\ html_files' = SortedFiles(DOMAIN html)
                      /\ idx' = 1
                      /\ pc' = "capture"
                      /\ UNCHANGED <<result, ending>>
    /\ last' = NoCall
    /\ open' = open + Open(conn')
    /\ UNCHANGED <<runs, route_numbers, todo, rendered, html, shots, lastcap,
                   captured, pdf, tried, stuck,
                   uploads, store, route>>

(***************************************************************************)
(* create_pdf_report, lines 294-368: one iteration of the capture loop.    *)
(***************************************************************************)
AliasQueries ==
    [raises : {TRUE}, rows : {NoRows}]
    \cup [raises : {FALSE}, rows : {NoRows} \cup {<<a>> : a \in Aliases}]
\* driver.save_screenshot: raises, returns False without a file, leaves an
\* empty file, or writes the image
ShotOutcomes == {"raises", "not_written", "empty", "written"}
CaptureWorlds ==
    {w \in [alias : AliasQueries, loads : BOOLEAN, shot : ShotOutcomes,
            image : BOOLEAN] :
        /\ ~w.loads => w.shot = "written"
        /\ (~w.loads \/ w.shot # "written") => w.image}

\* lines 303-316
ReportAlias(connection, q) ==
    IF connection # "open" THEN NULL
    ELSE IF q.raises THEN NULL
    ELSE IF q.rows = NoRows THEN NULL
    ELSE q.rows[1]

\* lines 324-335: the screenshots on disk after the capture
AfterScreenshot(files, key, w) ==
    LET safe_route_id == SafeRouteId(ExtractRouteId(key))
    IN IF ~w.loads \/ w.shot \in {"raises", "not_written"} THEN files
       ELSE Put(files, safe_route_id,
                [size |-> IF w.shot = "empty" THEN 0 ELSE 1])

\* the iteration without the size check of line 343
OutcomeWithoutSizeCheck(files, key, w) ==
    LET safe_route_id == SafeRouteId(ExtractRouteId(key))
    IN IF ~w.loads \/ w.shot = "raises" THEN "raised"
       ELSE IF safe_route_id \notin DOMAIN files THEN "missing"
       ELSE IF ~w.image THEN "image_failed"
       ELSE "added"

\* lines 324-365: how the iteration ends
CaptureOutcome(files, key, w) ==
    LET safe_route_id == SafeRouteId(ExtractRouteId(key))
    IN IF ~w.loads \/ w.shot = "raises" THEN "raised"
       ELSE IF safe_route_id \notin DOMAIN files THEN "missing"
       ELSE IF files[safe_route_id].size = 0 THEN "empty"
       ELSE IF ~w.image THEN "image_failed"
       ELSE "added"

\* lines 326-356: the page was loaded, the screenshot taken, the file is on
\* disk with content and reportlab could read it
CaptureSucceeded(files, key, w) ==
    LET safe_route_id == SafeRouteId(ExtractRouteId(key))
    IN /\ w.loads
       /\ w.shot # "raises"
       /\ safe_route_id \in DOMAIN files
       /\ files[safe_route_id].size > 0
       /\ w.image

\* lines 347-365: what the iteration appends to the elements
Section(outcome, key, route_alias, last_file) ==
    LET route_id == ExtractRouteId(key)
        title == <<Element("Heading", route_id, route_alias), Fixed("Spacer")>>
    IN IF outcome = "added"
       THEN title \o <<Element("Image", route_id, NULL)>>
            \o (IF key # last_file THEN <<Fixed("PageBreak")>> ELSE <<>>)
            \o <<Fixed("Spacer")>>
       ELSE IF outcome = "image_failed"
       THEN title \o <<Element("Note", route_id, route_alias)>>
       ELSE <<>>

\* an iteration that raised ends create_pdf_report
StopOnCaptureError(outcome, position, count) ==
    IF outcome = "raised" THEN "done"
    ELSE IF position = count THEN "build" ELSE "capture"

\* an iteration that raised is waited for instead of being left
PollUntilCaptured(outcome, position, count) ==
    IF outcome = "raised" THEN "capture"
    ELSE IF position = count THEN "build" ELSE "capture"

\* lines 294 and 367-368: whatever happened to this map, the loop goes on;
\* after the last map the document is built
AfterCapture(outcome, position, count) ==
    IF position = count THEN "build" ELSE "capture"

Capture ==
    /\ pc = "capture"
    /\ idx <= Len(html_files)
    /\ \E w \in CaptureWorlds :
         /\ (conn # "open") => w.alias = DefaultQuery
         /\ LET key == html_files[idx]
                files == AfterScreenshot(shots, key, w)
                outcome == CaptureOutcome(files, key, w)
            IN /\ shots' = files
               /\ elements' = elements \o
                     Section(outcome, key, ReportAlias(conn, w.alias),
                             html_files[Len(html_files)])
               /\ lastcap' = [key |-> key, outcome |-> outcome]
               /\ captured' = IF CaptureSucceeded(files, key, w)
                               THEN Append(captured, key)
                               ELSE captured
               /\ pc' = AfterCapture(outcome, idx, Len(html_files))
    /\ idx' = idx + 1
    /\ UNCHANGED <<runs, route_numbers, todo, last, rendered, html, driver,
                   conn, html_files, pdf, result, tried, stuck, ending,
                   uploads, open, store, route>>

(***************************************************************************)
(* create_pdf_report, lines 370-378 and 398-400: engine and connection     *)
(* are let go, the document is built.                                      *)
(***************************************************************************)
\* the release phase follows the build whether it returned or raised
ReleaseAlways(builds) == "release"

\* lines 376-400: the release phase follows a build that returned
AfterBuild(builds) == IF builds THEN "release" ELSE "done"

Build ==
    /\ pc = "build"
    /\ driver' = "quit"
    /\ conn' = IF conn = "open" THEN "closed" ELSE conn
    /\ open' = open - Open(conn) + Open(conn')
    /\ \E builds \in BOOLEAN :
         /\ pdf' = IF builds THEN elements ELSE pdf
         /\ result' = IF builds THEN result ELSE NULL
         /\ ending' = IF builds THEN ending ELSE "build_failed"
         /\ pc' = IF AfterBuild(builds) = "release" THEN "release"
                  ELSE AfterReport(NULL)
    /\ lastcap' = NoCapture
    /\ UNCHANGED <<runs, route_numbers, todo, last, rendered, html, shots,
                   html_files, idx, elements, captured, tried, stuck,
                   uploads, store, route>>

(***************************************************************************)
(* create_pdf_report, lines 380-397: the staged files are removed.         *)
(***************************************************************************)
\* lines 381 and 390: the two globs of the release phase
ReleaseTargets(maps, screenshots) ==
    {<<"html", k>> : k \in DOMAIN maps}
    \cup {<<"jpg", k>> : k \in DOMAIN screenshots}

\* the first os.remove that raises ends the release phase
RemovedUntilRaise(targets, raising) == IF raising = {} THEN targets ELSE {}

\* lines 382-396: os.remove on every target; "raising" are the targets on
\* which it raises, each caught on its own
Removed(targets, raising) == targets \ raising

Release ==
    /\ pc = "release"
    /\ LET targets == ReleaseTargets(html, shots)
       IN \E raising \in SUBSET targets :
            /\ Cardinality(raising) <= MaxStuck
            /\ shots' = Drop(shots, {k \in DOMAIN shots :
                                        <<"jpg", k>> \in Removed(targets, raising)})
            /\ html' = Drop(html, {k \in DOMAIN html :
                                      <<"html", k>> \in Removed(targets, raising)})
            /\ tried' = targets
            /\ stuck' = raising
    /\ result' = "pdf_path"
    /\ pc' = AfterReport("pdf_path")
    /\ UNCHANGED <<runs, route_numbers, todo, last, rendered, driver, conn,
                   html_files, idx, elements, lastcap, captured, pdf, ending,
                   uploads, open, store, route>>

(***************************************************************************)
(* main, lines 771-779, and upload_to_blob_storage, lines 685-744.         *)
(***************************************************************************)
\* "blob_url": what upload_to_blob_storage returns, the URL of the blob or
\* None after any failure (lines 698, 704, 713, 723, 744)
Upload ==
    /\ pc = "upload"
    /\ uploads' = uploads + 1
    /\ \E blob_url \in {NULL, "url"} :
         ending' = IF Truthy(blob_url) THEN "uploaded" ELSE "upload_failed"
    /\ pc' = "done"
    /\ UNCHANGED <<runs, route_numbers, todo, last, rendered, html, shots,
                   driver, conn, html_files, idx, elements, lastcap, captured,
                   pdf, result, tried, stuck, open, store, route>>

(***************************************************************************)
(* The timer fires again: main() runs over the same staging directory.     *)
(***************************************************************************)
Rerun ==
    /\ pc = "done"
    /\ runs < MaxRuns
    /\ runs' = runs + 1
    /\ pc' = "main"
    /\ route_numbers' = <<>>
    /\ todo' = <<>>
    /\ last' = NoCall
    /\ rendered' = {}
    /\ driver' = "none"
    /\ conn' = "none"
    /\ html_files' = <<>>
    /\ idx' = 0
    /\ elements' = <<>>
    /\ lastcap' = NoCapture
    /\ captured' = <<>>
    /\ result' = "pending"
    /\ tried' = {}
    /\ stuck' = {}
    /\ uploads' = 0
    /\ open' = 0
    /\ ending' = "running"
    /\ pdf' = NoPdf
    /\ UNCHANGED <<html, shots, store, route>>

\* one run of main() over an empty staging directory
Next ==
    \/ Discover
    \/ CreateRouteMap
    \/ StartReport
    \/ Capture
    \/ Build
    \/ Release
    \/ Upload

Spec == Init /\ [][Next]_vars

\* lines 762-764: the loop of main() goes to its next route; it is the step
\* CreateRouteMap takes, told by what it does to the loop alone
NextRoute == pc = "routes" /\ todo # <<>> /\ todo' = Tail(todo)

\* main() is one sequential program and every call it makes into the
\* environment returns or raises: the step the program is at is taken
SpecFair ==
    /\ Spec
    /\ WF_vars(Discover)
    /\ WF_todo(NextRoute)
    /\ WF_vars(StartReport)
    /\ WF_vars(Capture)
    /\ WF_vars(Build)
    /\ WF_vars(Release)
    /\ WF_vars(Upload)
(***************************************************************************)
(* Several runs over one staging directory; the discovery query returns    *)
(* at most one route so that the runs stay small.                          *)
(***************************************************************************)
DiscoverOne == DiscoverIn(DiscoveryWorldsOver(SeqsUpTo(RouteUniverse, 1)))

NextRuns ==
    \/ DiscoverOne
    \/ CreateRouteMap
    \/ StartReport
    \/ Capture
    \/ Build
    \/ Release
    \/ Upload
    \/ Rerun

SpecRuns == Init /\ [][NextRuns]_vars

(***************************************************************************)
(* The drawing of one route taken alone: create_route_map from line 417    *)
(* to line 667, for every content of the store.                            *)
(***************************************************************************)
InitMap ==
    /\ RunStart
    /\ runs = 1
    /\ html = <<>>
    /\ shots = <<>>
    /\ store \in Stores
    /\ route = NotDrawn

DrawRoute ==
    /\ ~route.drawn
    /\ Truthy(store.vehicle_id)
    /\ route' = RouteRecord(store)
    /\ UNCHANGED <<pc, runs, route_numbers, todo, last, rendered, html, shots,
                   driver, conn, html_files, idx, elements, lastcap, captured,
                   pdf, result, tried, stuck, uploads, open, ending, store>>

NextMap == DrawRoute

SpecMap == InitMap /\ [][NextMap]_vars

(***************************************************************************)
(* The drawing of one route with many road segments: a route of the        *)
(* sentinel vehicle without nodes and charging stops.                      *)
(***************************************************************************)
SegmentStores ==
    [vehicle_id : {Sentinel}, timing : {DefaultQuery}, table : {{}},
     nodes : {<<>>}, segments : LongSegmentFrames, charging : {<<>>}]

InitSegments ==
    /\ RunStart
    /\ runs = 1
    /\ html = <<>>
    /\ shots = <<>>
    /\ store \in SegmentStores
    /\ route = NotDrawn

SpecSegments == InitSegments /\ [][NextMap]_vars

(***************************************************************************)
(* Vocabulary of the properties.                                           *)
(***************************************************************************)
\* the staged visualizations and rasters in the output directory
StagedFiles(maps, screenshots) ==
    {<<"html", k>> : k \in DOMAIN maps}
    \cup {<<"jpg", k>> : k \in DOMAIN screenshots}

\* positions of the route sections of a document: a route section is a
\* heading followed by the captured image, it is named by its image
SectionPositions(doc) == {i \in 1..Len(doc) : doc[i].kind = "Image"}

IsImage(e) == e.kind = "Image"
\* the route identifiers of the route sections, in document order
SectionRoutes(doc) ==
    LET images == SelectSeq(doc, IsImage)
    IN [i \in 1..Len(images) |-> images[i].route_id]

SetMax(S) == CHOOSE x \in S : \A y \in S : y <= x

(***************************************************************************)
(* C1: a staged journey_map_*.html or screenshot_*.jpg disappears only in  *)
(* a step taken after the document build has succeeded; a failed build is  *)
(* followed by no deletion.                                                *)
(***************************************************************************)
C1_NoReleaseBeforeBuild ==
    [][\/ StagedFiles(html, shots) \subseteq StagedFiles(html', shots')
       \/ pdf # NoPdf]_vars

\* the build failed with maps and screenshots staged
C1_Witness ==
    /\ ending = "build_failed"
    /\ DOMAIN html # {}
    /\ DOMAIN shots # {}

(***************************************************************************)
(* C2: for a route whose vehicle id is the sentinel 'X', create_route_map  *)
(* calls neither get_route_timing nor get_telematics_data, and the map it  *)
(* saves holds the planned layers only.                                    *)
(***************************************************************************)
C2_SentinelPlannedOnly ==
    (last.status # "none" /\ last.vehicle_id = Sentinel) =>
        /\ "timing" \notin Range(last.calls)
        /\ "track" \notin Range(last.calls)
        /\ last.status = "rendered" =>
              /\ last.route_id \in DOMAIN html
              /\ html[last.route_id].layers = PlannedLayers

\* a sentinel route was rendered
C2_Witness ==
    /\ last.status = "rendered"
    /\ last.vehicle_id = Sentinel
    /\ last.calls = <<"plan", "nodes", "segments", "charging">>

(***************************************************************************)
(* C3: in the finished document no page break follows the last route       *)
(* section, and a page break stands between every two consecutive route    *)
(* sections.                                                               *)
(***************************************************************************)
C3_NoTrailingSeparator ==
    pdf # NoPdf =>
        LET sections == SectionPositions(pdf)
        IN /\ sections # {} =>
                \A j \in (SetMax(sections) + 1)..Len(pdf) :
                    pdf[j].kind # "PageBreak"
           /\ \A i, j \in sections :
                i < j => \E k \in (i + 1)..(j - 1) : pdf[k].kind = "PageBreak"

(***************************************************************************)
(* C4: the route sections of the finished document stand in ascending      *)
(* order of the staged file paths and every one of them belongs to a       *)
(* staged map, whatever the order of discovery was.                        *)
(***************************************************************************)
C4_SectionsInSortedOrder ==
    pdf # NoPdf =>
        LET routes == SectionRoutes(pdf)
        IN /\ \A i, j \in 1..Len(routes) :
                i < j => StrLess(HtmlName(routes[i]), HtmlName(routes[j]))
           /\ \A i \in 1..Len(routes) :
                \E k \in Range(html_files) : ExtractRouteId(k) = routes[i]

\* two sections, discovered in the opposite order
C4_Witness ==
    /\ pdf # NoPdf
    /\ Len(SectionRoutes(pdf)) = 2
    /\ Len(route_numbers) = 2
    /\ StrLess(HtmlName(route_numbers[2]), HtmlName(route_numbers[1]))

(***************************************************************************)
(* C5: when fetch_route_numbers returns an empty list the run ends there:  *)
(* no route is rendered, create_pdf_report is not called, no document is   *)
(* built and no upload is attempted.                                       *)
(***************************************************************************)
C5_EmptyDiscoveryAborts ==
    (pc # "main" /\ route_numbers = <<>>) =>
        /\ pc = "done"
        /\ ending = "no_routes"
        /\ last = NoCall
        /\ rendered = {}
        /\ driver = "none"
        /\ result = "pending"
        /\ pdf = NoPdf

\* a run that found no route
C5_Witness ==
    /\ pc = "done"
    /\ route_numbers = <<>>
    /\ ending = "no_routes"

(***************************************************************************)
(* C6: a capture that fails adds no route section and stops nothing: every *)
(* staged map is processed, and the finished document holds the legend     *)
(* and exactly one route section per map whose capture succeeded.          *)
(***************************************************************************)
C6_OneSectionPerCapture ==
    /\ pc \in {"capture", "build"} =>
          /\ SectionRoutes(elements)
                = [i \in 1..Len(captured) |-> ExtractRouteId(captured[i])]
          /\ (pc = "build") = (idx = Len(html_files) + 1)
    /\ pdf # NoPdf =>
          /\ SubSeq(pdf, 1, Len(LegendElements)) = LegendElements
          /\ SectionRoutes(pdf)
                = [i \in 1..Len(captured) |-> ExtractRouteId(captured[i])]
          /\ idx = Len(html_files) + 1

\* two staged maps, one capture failed, the document has one route section
C6_Witness ==
    /\ pdf # NoPdf
    /\ Len(html_files) = 2
    /\ Len(captured) = 1
    /\ Len(SectionRoutes(pdf)) = 1

(***************************************************************************)
(* C7: the release phase calls os.remove on every staged map and every     *)
(* staged screenshot, those of failed captures included; the files left    *)
(* are exactly those on which os.remove raised, and create_pdf_report      *)
(* still returns the path of the document.                                 *)
(***************************************************************************)
C7_ReleaseRemovesAllStaged ==
    [][pc = "release" =>
          /\ tried' = StagedFiles(html, shots)
          /\ StagedFiles(html', shots') = stuck'
          /\ result' = "pdf_path"
          /\ pc' = "upload"]_vars

\* one removal raised, the map of a failed capture was removed all the same
C7_Witness ==
    /\ result = "pdf_path"
    /\ stuck # {}
    /\ \E k \in Range(html_files) :
         /\ k \notin Range(captured)
         /\ <<"html", k>> \in tried \ stuck
         /\ k \notin DOMAIN html

(***************************************************************************)
(* C8: a create_route_map call that ends without a map, and a capture      *)
(* iteration that ends without a section, leave the run going: the         *)
(* remaining routes and maps are processed and create_pdf_report is        *)
(* called.                                                                 *)
(***************************************************************************)
C8_RouteErrorsNeverAbort ==
    /\ last.status \in {"noconn", "skipped", "failed"} =>
          pc \in {"routes", "report"} /\ ending = "running"
    /\ pc = "routes" => todo # <<>>
    /\ (pc \notin {"main", "routes"} /\ route_numbers # <<>>) => todo = <<>>
    /\ (pc = "done" /\ route_numbers # <<>>) =>
          ending \notin {"running", "no_routes"}
    /\ lastcap.outcome \in {"raised", "missing", "empty", "image_failed"} =>
          pc \in {"capture", "build"} /\ ending = "running"
    /\ pc \in {"build", "release", "upload"} => idx = Len(html_files) + 1

\* a route was left out, a capture raised, and the run goes on to the build
C8_Witness ==
    /\ pc = "build"
    /\ lastcap.outcome = "raised"
    /\ Cardinality(rendered) < Len(Unique(route_numbers))

(***************************************************************************)
(* C9 as stated: after any sub-fetch error (window, track, waypoints, road *)
(* segments, charging stops) the route still yields a rendered map, as     *)
(* long as rendering itself does not fail.                                 *)
(***************************************************************************)
C9_AnyFetchErrorDowngraded ==
    (/\ last.status \in {"failed", "rendered"}
     /\ last.raised # "save"
     /\ \/ last.caught \cap {"timing", "track"} # {}
        \/ last.raised \in {"nodes", "segments", "charging"}) =>
        last.status = "rendered"

(***************************************************************************)
(* C9 amended: an error of the window or track lookup is caught in the     *)
(* lookup and counts as missing telemetry, the route is rendered with the  *)
(* planned layers only unless a planned read or the rendering raises; an   *)
(* error of a planned read (waypoints, road segments, charging stops) is   *)
(* not downgraded, the route yields no map and the loop goes on.           *)
(***************************************************************************)
C9_TelemetryErrorDowngraded ==
    /\ (/\ last.caught \cap {"timing", "track"} # {}
        /\ last.raised = NULL) =>
          /\ last.status = "rendered"
          /\ html[last.route_id].layers = PlannedLayers
    /\ last.raised \in {"nodes", "segments", "charging"} =>
          /\ last.status = "failed"
          /\ last.route_id \notin rendered
          /\ pc \in {"routes", "report"}

\* the track lookup raised and the route was rendered
C9_Witness ==
    /\ "track" \in last.caught
    /\ last.status = "rendered"

(***************************************************************************)
(* C10: a route for which get_vehicle_and_route_info returns (None, None)  *)
(* is skipped: no further lookup is made for it, no map is saved for it,   *)
(* and the loop goes on.                                                   *)
(***************************************************************************)
C10_NotFoundSkipped ==
    (/\ last.status \notin {"none", "noconn"}
     /\ last.vehicle_id = NULL
     /\ last.route_alias = NULL) =>
        /\ last.status = "skipped"
        /\ last.calls = <<"plan">>
        /\ last.route_id \notin rendered
        /\ pc \in {"routes", "report"}

\* a route without a plan record was skipped and another route follows
C10_Witness ==
    /\ last.status = "skipped"
    /\ last.vehicle_id = NULL
    /\ last.route_alias = NULL
    /\ pc = "routes"

(***************************************************************************)
(* C11 as stated: a route for which get_vehicle_and_route_info returns     *)
(* (None, None) skips the telemetry lookups but is still rendered, with    *)
(* its planned layers only, into a staged map.                             *)
(***************************************************************************)
C11_NotFoundRenderedPlannedOnly ==
    (/\ last.status \notin {"none", "noconn"}
     /\ last.vehicle_id = NULL
     /\ last.route_alias = NULL) =>
        /\ last.status = "rendered"
        /\ "timing" \notin Range(last.calls)
        /\ "track" \notin Range(last.calls)
        /\ last.route_id \in DOMAIN html
        /\ html[last.route_id].layers = PlannedLayers

(***************************************************************************)
(* C11 amended: the create_route_map call of a route for which             *)
(* get_vehicle_and_route_info returns (None, None) makes neither the       *)
(* telemetry lookups nor the planned reads and leaves the staged maps as   *)
(* they were: nothing is rendered for the route.                           *)
(***************************************************************************)
C11_NotFoundLeavesNoArtifact ==
    [][(/\ pc = "routes"
        /\ last'.status # "noconn"
        /\ last'.vehicle_id = NULL
        /\ last'.route_alias = NULL) =>
          /\ html' = html
          /\ rendered' = rendered
          /\ Range(last'.calls)
                \cap {"timing", "track", "nodes", "segments", "charging"} = {}]_vars

\* the only route of the run has no plan record: nothing is staged when the
\* report starts
C11_Witness ==
    /\ pc = "report"
    /\ last.status = "skipped"
    /\ last.vehicle_id = NULL
    /\ last.route_alias = NULL
    /\ Len(route_numbers) = 1
    /\ DOMAIN html = {}

(***************************************************************************)
(* C12: the webdriver is created at most once in a run and never again     *)
(* after it was quit; it runs only while the capture loop has maps to      *)
(* process; however create_pdf_report ends after creating it (no staged    *)
(* maps, captures that failed, a build that failed, a document returned),  *)
(* it has been quit; no capture iteration is made without a running        *)
(* webdriver.                                                              *)
(***************************************************************************)
C12_DriverAlwaysReleased ==
    [][/\ (driver' = "running") = (pc' \in {"capture", "build"})
       /\ pc' \in {"release", "upload"} => driver' = "quit"
       /\ ending' \in {"no_maps", "build_failed", "uploaded", "upload_failed"}
             => driver' = "quit"
       /\ ending' \in {"no_routes", "no_libraries", "no_driver"}
             => driver' = "none"
       /\ driver # "none" => driver' # "none"
       /\ driver = "quit" => driver' = "quit"
       /\ (idx > 0 /\ idx' # idx) =>
             /\ driver = "running"
             /\ idx' = idx + 1
             /\ idx <= Len(html_files)]_vars

\* a capture failed, the build failed, the webdriver was quit
C12_Witness ==
    /\ ending = "build_failed"
    /\ Len(captured) < Len(html_files)
    /\ driver = "quit"

(***************************************************************************)
(* C13: upload_to_blob_storage is called only with the path that           *)
(* create_pdf_report returned for a document it built, at most once in a   *)
(* run; the call leaves the document as it is whether it succeeds or       *)
(* fails, and a failed upload ends the run with the document in place.     *)
(***************************************************************************)
C13_UploadOnlyAfterBuild ==
    [][/\ uploads' <= 1
       /\ uploads' # uploads =>
             /\ pc = "upload"
             /\ result = "pdf_path"
             /\ pdf # NoPdf
             /\ pdf' = pdf
             /\ pc' = "done"
       /\ ending' \in {"uploaded", "upload_failed"} =>
             /\ uploads' = 1
             /\ pdf' # NoPdf
       /\ (result' # "pdf_path" \/ pdf' = NoPdf) => uploads' = 0]_vars

\* the upload failed, the document of the run is still there
C13_Witness ==
    /\ ending = "upload_failed"
    /\ uploads = 1
    /\ pdf # NoPdf
    /\ result = "pdf_path"

(***************************************************************************)
(* C14 as stated: a run that ends without a document is a run in which     *)
(* the discovery returned nothing, the webdriver could not be created, no  *)
(* map was staged, or the build of the document failed.                    *)
(***************************************************************************)
C14_NoDocumentOnlyWhenFatal ==
    (pc = "done" /\ pdf = NoPdf) =>
        \/ route_numbers = <<>>
        \/ ending = "no_driver"
        \/ ending = "no_maps" /\ DOMAIN html = {}
        \/ ending = "build_failed"

(***************************************************************************)
(* C14 amended: a run ends without a document exactly when the discovery   *)
(* returned nothing, a library of the report stage could not be imported,  *)
(* the webdriver could not be created, no map was staged, or the build of  *)
(* the document failed; every other run, whatever routes were skipped and  *)
(* captures failed, ends with a document.                                  *)
(***************************************************************************)
C14_NoDocumentOnlyWhenFatalOrNoLibrary ==
    pc = "done" =>
        /\ (pdf = NoPdf) = (ending \in {"no_routes", "no_libraries",
                                        "no_driver", "no_maps",
                                        "build_failed"})
        /\ (pdf # NoPdf) = (ending \in {"uploaded", "upload_failed"})
        /\ (ending = "no_routes") = (route_numbers = <<>>)
        /\ ending \in {"no_libraries", "no_driver"} =>
              driver = "none" /\ html_files = <<>>
        /\ ending = "no_maps" =>
              driver = "quit" /\ DOMAIN html = {} /\ rendered = {}
        /\ ending = "build_failed" =>
              driver = "quit" /\ html_files # <<>>
        /\ (route_numbers # <<>> /\ html_files # <<>>
            /\ ending # "build_failed") => pdf # NoPdf

\* maps were staged and the run ended without a document, the import of the
\* report libraries having failed
C14_Witness ==
    /\ pc = "done"
    /\ ending = "no_libraries"
    /\ rendered # {}
    /\ pdf = NoPdf

(***************************************************************************)
(* Vocabulary of the properties of a drawn map.                            *)
(***************************************************************************)
\* positions of the markers of one kind, and of the lines of one colour
MarkersOfKind(map, kind) ==
    {i \in 1..Len(map.markers) : map.markers[i].kind = kind}
LinesOfColor(map, color) ==
    {i \in 1..Len(map.lines) : map.lines[i].color = color}
\* the window lookup of the route returned both timestamps
HasWindow(r) == r.route_start_time > NoTime /\ r.route_end_time > NoTime

(***************************************************************************)
(* C15: the map holds the red line of the actual route, exactly one start  *)
(* marker at the first telemetry point and exactly one end marker at the   *)
(* last one if the telemetry frame has rows, and none of the three if it   *)
(* has none; a route of a tracked vehicle with a window and no telemetry   *)
(* row is drawn with the planned layers only.                              *)
(***************************************************************************)
C15_ActualTrackAllOrNothing ==
    route.drawn =>
        LET df == route.telematics_df
            map == route.m
            reds == LinesOfColor(map, "red")
            starts == MarkersOfKind(map, "actual_start")
            ends == MarkersOfKind(map, "actual_end")
        IN /\ df # NoRows =>
                /\ Cardinality(reds) = 1
                /\ \A i \in reds :
                     map.lines[i].locations =
                        [k \in 1..Len(df) |-> <<df[k].latitude, df[k].longitude>>]
                /\ Cardinality(starts) = 1
                /\ \A i \in starts :
                     map.markers[i].location = <<df[1].latitude, df[1].longitude>>
                /\ Cardinality(ends) = 1
                /\ \A i \in ends :
                     map.markers[i].location =
                        <<df[Len(df)].latitude, df[Len(df)].longitude>>
           /\ df = NoRows => reds = {} /\ starts = {} /\ ends = {}
           /\ (route.vehicle_id # Sentinel /\ HasWindow(route) /\ df = NoRows) =>
                /\ \A i \in 1..Len(map.markers) :
                     map.markers[i].kind \in {"node", "charging", "depot"}
                /\ \A i \in 1..Len(map.lines) : map.lines[i].color = "blue"

\* a track of two points at different places was drawn
C15_Witness ==
    /\ route.drawn
    /\ Len(route.telematics_df) = 2
    /\ route.telematics_df[1].latitude # route.telematics_df[2].latitude
    /\ Cardinality(MarkersOfKind(route.m, "actual_end")) = 1

(***************************************************************************)
(* C16: the map holds one numbered marker per planned node, placed at the  *)
(* node and labelled with the node's own sequence number, one "C" marker   *)
(* per charging stop, and exactly one depot marker at the depot            *)
(* coordinate whatever the route data are; on a route of the sentinel      *)
(* vehicle these are all its markers and it has no red line.               *)
(***************************************************************************)
C16_OneMarkerPerPlannedPoint ==
    route.drawn =>
        LET map == route.m
            nodes == route.gdf_nodes
            charging == route.gdf_charging
            numbered == MarkersOfKind(map, "node")
            charges == MarkersOfKind(map, "charging")
            depots == MarkersOfKind(map, "depot")
        IN /\ Cardinality(numbered) = Len(nodes)
           /\ \A i \in 1..Len(nodes) :
                \E k \in numbered :
                    /\ map.markers[k].location = <<nodes[i].lat, nodes[i].lon>>
                    /\ map.markers[k].label = ToString(nodes[i].node_sequence)
           /\ Cardinality(charges) = Len(charging)
           /\ \A i \in 1..Len(charging) :
                \E k \in charges :
                    map.markers[k].location = <<charging[i].lat, charging[i].lon>>
           /\ Cardinality(depots) = 1
           /\ \A k \in depots :
                map.markers[k].location = <<DepotLat, DepotLon>>
           /\ route.vehicle_id = Sentinel =>
                /\ Len(map.markers) = Len(nodes) + Len(charging) + 1
                /\ LinesOfColor(map, "red") = {}

\* three nodes, returned out of sequence, and one charging stop on a route
\* of the sentinel vehicle: five markers
C16_Witness ==
    /\ route.drawn
    /\ route.vehicle_id = Sentinel
    /\ Len(route.gdf_nodes) = 3
    /\ route.gdf_nodes[1].node_sequence # 1
    /\ Len(route.gdf_charging) = 1
    /\ Len(route.m.markers) = 5

(***************************************************************************)
(* C17 as stated: a route without nodes, charging stops and telemetry      *)
(* rows is drawn at the fallback centre and zoom and fit_bounds is not     *)
(* called.                                                                 *)
(***************************************************************************)
C17_EmptyRouteNotRefitted ==
    (/\ route.drawn
     /\ route.gdf_nodes = <<>>
     /\ route.gdf_charging = <<>>
     /\ route.telematics_df = NoRows) =>
        /\ route.m.location = <<FallbackLat, FallbackLon>>
        /\ route.m.zoom_start = ZoomStart
        /\ route.m.bounds = NoBounds

(***************************************************************************)
(* C17 amended: a route without nodes, charging stops and telemetry rows   *)
(* is drawn: the map is created at the fallback centre and zoom, it holds  *)
(* the depot marker, and fit_bounds is called with the box whose two       *)
(* corners are the depot coordinate.                                       *)
(***************************************************************************)
C17_EmptyRouteFittedToDepot ==
    (/\ route.drawn
     /\ route.gdf_nodes = <<>>
     /\ route.gdf_charging = <<>>
     /\ route.telematics_df = NoRows) =>
        /\ route.m.location = <<FallbackLat, FallbackLon>>
        /\ route.m.zoom_start = ZoomStart
        /\ route.m.markers = <<DepotMarker>>
        /\ route.m.bounds = <<<<DepotLat, DepotLon>>, <<DepotLat, DepotLon>>>>

\* the only node row and the only charging row lack a coordinate, the
\* vehicle is tracked and has no window: nothing but the depot is drawn
C17_Witness ==
    /\ route.drawn
    /\ route.vehicle_id = Tracked
    /\ Len(store.nodes) = 1
    /\ Len(store.charging) = 1
    /\ route.gdf_nodes = <<>>
    /\ route.gdf_charging = <<>>
    /\ route.telematics_df = NoRows
    /\ route.m.bounds # NoBounds

(***************************************************************************)
(* C18: the rows of the telemetry frame of a route come in non-decreasing  *)
(* order of their timestamp, each timestamp lies between the start and the *)
(* end that the window lookup returned, and the frame has rows only if     *)
(* that lookup was made and returned both timestamps.                      *)
(***************************************************************************)
C18_TrackOrderedInsideWindow ==
    route.drawn =>
        LET df == route.telematics_df
        IN /\ \A i, j \in 1..Len(df) : i < j => df[i].date <= df[j].date
           /\ \A i \in 1..Len(df) :
                /\ route.route_start_time <= df[i].date
                /\ df[i].date <= route.route_end_time
           /\ df # NoRows =>
                /\ HasWindow(route)
                /\ route.calls = <<"timing", "track">>
                /\ route.vehicle_id # Sentinel

\* the table holds a row before the window and two inside it
C18_Witness ==
    /\ route.drawn
    /\ Cardinality(store.table) = 3
    /\ \E r \in store.table : r.date < route.route_start_time
    /\ Len(route.telematics_df) = 2
    /\ route.telematics_df[1].date < route.telematics_df[2].date

\* the places whose coordinates the viewport has to hold, as (lat, lon):
\* nodes, charging stops, depot and telemetry rows
Plotted(r) ==
    {<<r.gdf_nodes[i].lat, r.gdf_nodes[i].lon>> : i \in 1..Len(r.gdf_nodes)}
    \cup {<<r.gdf_charging[i].lat, r.gdf_charging[i].lon>> :
             i \in 1..Len(r.gdf_charging)}
    \cup {<<DepotLat, DepotLon>>}
    \cup {<<r.telematics_df[i].latitude, r.telematics_df[i].longitude>> :
             i \in 1..Len(r.telematics_df)}
\* the places the road segments pass, as (lat, lon)
OnSegments(r) ==
    {<<r.gdf_segments[i].geom.coords[k][2], r.gdf_segments[i].geom.coords[k][1]>> :
        i \in 1..Len(r.gdf_segments), k \in 1..2}

(***************************************************************************)
(* C20: fit_bounds is called with [[min lat, min lon], [max lat, max lon]] *)
(* taken over the coordinates of the nodes, the charging stops, the depot  *)
(* and the telemetry rows, and over nothing else: each of these points     *)
(* lies inside the box, each side of the box passes through one of them,   *)
(* the road segments have no part in it.                                   *)
(***************************************************************************)
C20_ViewportFitsPlottedPoints ==
    route.drawn =>
        LET points == Plotted(route)
            box == route.m.bounds
        IN /\ box # NoBounds
           /\ \A p \in points :
                /\ box[1][1] <= p[1] /\ p[1] <= box[2][1]
                /\ box[1][2] <= p[2] /\ p[2] <= box[2][2]
           /\ \E p \in points : p[1] = box[1][1]
           /\ \E p \in points : p[2] = box[1][2]
           /\ \E p \in points : p[1] = box[2][1]
           /\ \E p \in points : p[2] = box[2][2]

\* nodes and telemetry on both sides of the depot, and a road segment that
\* runs north of the box
C20_Witness ==
    /\ route.drawn
    /\ Len(route.gdf_nodes) >= 2
    /\ route.telematics_df # NoRows
    /\ route.m.bounds[1] # route.m.bounds[2]
    /\ \E p \in OnSegments(route) : p[1] > route.m.bounds[2][1]

(***************************************************************************)
(* C19: every staged map is named by the sanitized route identifier, the   *)
(* name its screenshot gets, and no two maps of a run get the same         *)
(* screenshot name.                                                        *)
(***************************************************************************)
C19_StagedFilesKeyedBySafeId ==
    /\ \A k \in DOMAIN html : k = SafeRouteId(ExtractRouteId(k))
    /\ \A i, j \in 1..Len(html_files) :
          i # j => SafeRouteId(ExtractRouteId(html_files[i]))
                      # SafeRouteId(ExtractRouteId(html_files[j]))

(***************************************************************************)
(* C21: counting from 1 the road segments that are drawn as lines, the     *)
(* k-th of them carries an arrow exactly when k is a multiple of 20; a     *)
(* route with fewer than 20 drawn segments has no arrow, and a row that is *)
(* not drawn (dropped by dropna, or not a LineString) does not advance the *)
(* count.                                                                  *)
(***************************************************************************)
C21_ArrowOnEveryTwentiethLine ==
    route.drawn =>
        LET map == route.m
            drawn == LinesOfColor(map, "blue")
            rows == {i \in 1..Len(store.segments) :
                        /\ store.segments[i].nulls = {}
                        /\ store.segments[i].geom.type = "LineString"}
        IN /\ Cardinality(drawn) = Cardinality(rows)
           /\ map.arrows \subseteq drawn
           /\ \A k \in drawn :
                (k \in map.arrows) = (\E q \in 1..k : k = 20 * q)
           /\ Cardinality(drawn) < 20 => map.arrows = {}
           /\ 20 * Cardinality(map.arrows) <= Cardinality(drawn)

\* forty lines and, among the first twenty rows, one that is not drawn: the
\* arrows are on the 20th and the 40th line
C21_Witness ==
    /\ route.drawn
    /\ Len(store.segments) = 41
    /\ \E p \in 1..20 : store.segments[p].geom.type # "LineString"
    /\ route.m.arrows = {20, 40}

(***************************************************************************)
(* C22: folium.Map is created at the coordinates of the first node of the  *)
(* node frame when the frame has a row, and at the fallback coordinate     *)
(* (51.5, -0.1) when it has none, whatever the telemetry rows, the         *)
(* charging stops and the depot are.                                       *)
(***************************************************************************)
C22_CentreOnFirstNode ==
    route.drawn =>
        /\ route.gdf_nodes # <<>> =>
              route.m.location
                 = <<route.gdf_nodes[1].lat, route.gdf_nodes[1].lon>>
        /\ route.gdf_nodes = <<>> =>
              route.m.location = <<FallbackLat, FallbackLon>>
        /\ route.m.zoom_start = ZoomStart

\* no node, but a charging stop and a track: the map is created at the
\* fallback coordinate
C22_Witness ==
    /\ route.drawn
    /\ route.gdf_nodes = <<>>
    /\ route.gdf_charging # <<>>
    /\ route.telematics_df # NoRows
    /\ route.m.location = <<51500000, 0 - 100000>>

\* the row the window lookup of the store returns first has both timestamps
WindowReturned(s) ==
    /\ ~s.timing.raises
    /\ s.timing.rows # NoRows
    /\ s.timing.rows[1].route_start_time # NoTime
    /\ s.timing.rows[1].route_end_time # NoTime

(***************************************************************************)
(* C23: for a route of a tracked vehicle the window lookup is made, and    *)
(* the track lookup is made exactly when the window lookup returned both   *)
(* a start and an end; without them (no row, a timestamp missing, the      *)
(* lookup raised) no track is fetched and the map is drawn with the        *)
(* planned layers only.                                                    *)
(***************************************************************************)
C23_TrackFetchedOnlyWithWindow ==
    (route.drawn /\ route.vehicle_id # Sentinel) =>
        /\ "timing" \in Range(route.calls)
        /\ ("track" \in Range(route.calls)) = WindowReturned(store)
        /\ ~WindowReturned(store) =>
              /\ route.telematics_df = NoRows
              /\ LinesOfColor(route.m, "red") = {}
              /\ Len(route.m.markers)
                    = Len(route.gdf_nodes) + Len(route.gdf_charging) + 1

(***************************************************************************)
(* C24: the node frame a map is drawn from is ordered by strictly          *)
(* increasing sequence number, and when the route has a window its start   *)
(* is before its end.                                                      *)
(***************************************************************************)
C24_RecordInvariants ==
    route.drawn =>
        /\ \A i, j \in 1..Len(route.gdf_nodes) :
              i < j => route.gdf_nodes[i].node_sequence
                          < route.gdf_nodes[j].node_sequence
        /\ HasWindow(route) => route.route_start_time < route.route_end_time

(***************************************************************************)
(* C25: every run ends, completed (the document was built and the upload   *)
(* attempted) or aborted; on the way each iteration of the route loop      *)
(* takes one route that does not come again, and each iteration of the     *)
(* capture loop takes the next staged map, none twice.                     *)
(***************************************************************************)
C25_BatchTerminates ==
    /\ <>(/\ pc = "done"
          /\ ending \in {"uploaded", "upload_failed", "no_routes",
                         "no_libraries", "no_driver", "no_maps",
                         "build_failed"})
    /\ [][/\ pc = "routes" =>
                /\ todo' = Tail(todo)
                /\ Head(todo) \notin Range(todo')
          /\ pc = "capture" =>
                /\ idx <= Len(html_files)
                /\ idx' = idx + 1
                /\ \A i \in 1..Len(html_files) :
                      i # idx => html_files[i] # html_files[idx]
          /\ pc = "done" => pc' = "done"]_vars

\* a run over two routes, one of them left out, with a capture that raised,
\* has ended
C25_Witness ==
    /\ pc = "done"
    /\ Len(route_numbers) = 2
    /\ Cardinality(rendered) = 1
    /\ captured = <<>>
    /\ ending = "uploaded"

(***************************************************************************)
(* C26: every route section of a built document is of a route this run    *)
(* rendered; a map staged by an earlier run over the same directory is in  *)
(* no later document.                                                      *)
(***************************************************************************)
C26_SectionsFromThisRun ==
    pdf # NoPdf =>
        \A i \in 1..Len(SectionRoutes(pdf)) : SectionRoutes(pdf)[i] \in rendered

(***************************************************************************)
(* C27: no connection stays open.  At every point between two steps of     *)
(* main() at most one connection is open, and it is the one                *)
(* create_pdf_report opened for the capture loop; the connection of a      *)
(* create_route_map call is closed when the call returns, whatever it      *)
(* returns; once the capture loop is left, and when the run has ended,     *)
(* none is open.                                                           *)
(***************************************************************************)
C27_ConnectionsClosed ==
    /\ open \in {0, 1}
    /\ open = 1 <=> conn = "open"
    /\ conn = "open" => pc \in {"capture", "build"}
    /\ last.status \notin {"none", "noconn"} => last.closed
    /\ pc = "done" => open = 0

\* a run that discovered routes and staged no map ended on the
\* no-artifacts path, where create_pdf_report had connected
C27_Witness ==
    /\ pc = "done"
    /\ ending = "no_maps"
    /\ route_numbers # <<>>
    /\ conn = "closed"
    /\ open = 0

(***************************************************************************)
(* C28: a built document holds at least one route section, a heading with  *)
(* the captured map or the note that stands for it; the legend alone is    *)
(* never built.                                                            *)
(***************************************************************************)
C28_DocumentHasRouteSection ==
    pdf # NoPdf => \E i \in 1..Len(pdf) : pdf[i].kind \in {"Heading", "Image"}

\* C28 as the code has it: when staged maps exist and every capture failed,
\* the capture loop still ends in the build; the build either fails, and
\* the run ends without a document, or produces the document, which opens
\* with the legend and has no route section; that document is handed back
\* and its upload is attempted once, as for any other document.
C28_LegendOnlyDocumentBuilt ==
    [][/\ (pc = "capture" /\ idx = Len(html_files)) => pc' = "build"
       /\ (pc = "build" /\ captured = <<>>) =>
             /\ html_files # <<>>
             /\ \/ /\ pc' = "release"
                   /\ pdf' = elements
                   /\ SubSeq(pdf', 1, Len(LegendElements)) = LegendElements
                   /\ SectionRoutes(pdf') = <<>>
                \/ /\ pc' = "done"
                   /\ pdf' = NoPdf
                   /\ ending' = "build_failed"
       /\ (pc = "release" /\ captured = <<>>) =>
             pc' = "upload" /\ pdf' = pdf
       /\ (pc = "upload" /\ captured = <<>>) =>
             pc' = "done" /\ pdf' = pdf /\ uploads' = 1]_vars

\* every capture of the run failed and the document, the legend alone, was
\* built and uploaded
C28_Witness ==
    /\ pdf = LegendElements
    /\ html_files # <<>>
    /\ captured = <<>>
    /\ ending = "uploaded"
====
